---- MODULE Spec2Model ----
(***************************************************************************)
(* TaskManager: a text file of time-tagged tasks, a loader with an mtime   *)
(* watermark, a notification dispatcher and a cancellable monitor loop.    *)
(* Text is a sequence of one-character strings; a time of day is the pair  *)
(* <<hour, minute>> compared lexicographically, as datetime.time is.       *)
(***************************************************************************)
EXTENDS Integers, Sequences, FiniteSets, TLC

(***************************************************************************)
(* Bounds of the model.                                                    *)
(***************************************************************************)
\* the file's modification time is a counter 1..MaxMtime
MaxMtime == 2
\* the history counter of notifications per task entry saturates here
MaxFired == 2
\* the history counter of consecutive failing ticks saturates here
MaxFailures == 2

(***************************************************************************)
(* Characters and the str methods used by the parser.                      *)
(***************************************************************************)
Digits == {"0", "1", "2", "3", "4", "5", "6", "7", "8", "9"}

Letters == {"a", "b", "c", "x", "y", "z"}

\* \w of the re module: letters, digits and the underscore
IsWord(c) == c \in Digits \cup Letters \cup {"_"}

\* str.isspace(): what str.strip() removes and \s matches
IsSpace(c) == c \in {" ", "\t", "\n", "\r"}

DigitVal(c) ==
    CASE c = "0" -> 0 [] c = "1" -> 1 [] c = "2" -> 2 [] c = "3" -> 3
      [] c = "4" -> 4 [] c = "5" -> 5 [] c = "6" -> 6 [] c = "7" -> 7
      [] c = "8" -> 8 [] c = "9" -> 9

RECURSIVE LStrip(_, _)
LStrip(s, chars) ==
    IF s # << >> /\ Head(s) \in chars THEN LStrip(Tail(s), chars) ELSE s

RECURSIVE RStrip(_, _)
RStrip(s, chars) ==
    IF s # << >> /\ s[Len(s)] \in chars
    THEN RStrip(SubSeq(s, 1, Len(s) - 1), chars)
    ELSE s

WhiteSpace == {" ", "\t", "\n", "\r"}

\* str.strip(): both ends, whitespace
Strip(s) == RStrip(LStrip(s, WhiteSpace), WhiteSpace)

\* str.strip(' -'): both ends, the characters space and hyphen
StripSpaceHyphen(s) == RStrip(LStrip(s, {" ", "-"}), {" ", "-"})

\* str.split('\n'): the pieces between newlines, empty pieces kept
RECURSIVE SplitAcc(_, _, _)
SplitAcc(s, cur, acc) ==
    IF s = << >> THEN Append(acc, cur)
    ELSE IF Head(s) = "\n" THEN SplitAcc(Tail(s), << >>, Append(acc, cur))
    ELSE SplitAcc(Tail(s), Append(cur, Head(s)), acc)

SplitLines(text) == SplitAcc(text, << >>, << >>)

\* re.sub(r'\s+', ' ', s): every run of whitespace becomes one space
RECURSIVE CollapseSpaces(_)
CollapseSpaces(s) ==
    IF s = << >> THEN << >>
    ELSE IF IsSpace(Head(s))
         THEN <<" ">> \o CollapseSpaces(LStrip(s, WhiteSpace))
         ELSE <<Head(s)>> \o CollapseSpaces(Tail(s))

(***************************************************************************)
(* The time pattern  \b([01]?\d|2[0-3]):([0-5]\d)\b                        *)
(***************************************************************************)
CharAt(s, i) == IF i >= 1 /\ i <= Len(s) THEN s[i] ELSE "\n"

\* \b at the gap before position i
WordBoundary(s, i) == IsWord(CharAt(s, i)) # IsWord(CharAt(s, i - 1))

\* ":[0-5]\d\b" starting at position i
MinutesAt(s, i) ==
    /\ CharAt(s, i) = ":"
    /\ CharAt(s, i + 1) \in {"0", "1", "2", "3", "4", "5"}
    /\ CharAt(s, i + 2) \in Digits
    /\ WordBoundary(s, i + 3)

\* length of the match of the time pattern that starts at i, 0 if none;
\* the alternatives in the order the regex engine tries them
TimeMatchLen(s, i) ==
    IF ~WordBoundary(s, i) THEN 0
    ELSE IF CharAt(s, i) \in {"0", "1"} /\ CharAt(s, i + 1) \in Digits
            /\ MinutesAt(s, i + 2) THEN 5
    ELSE IF CharAt(s, i) \in Digits /\ MinutesAt(s, i + 1) THEN 4
    ELSE IF CharAt(s, i) = "2" /\ CharAt(s, i + 1) \in {"0", "1", "2", "3"}
            /\ MinutesAt(s, i + 2) THEN 5
    ELSE 0

\* re.search(time_pattern, s): position of the leftmost match, 0 if none
RECURSIVE SearchFrom(_, _)
SearchFrom(s, i) ==
    IF i > Len(s) THEN 0
    ELSE IF TimeMatchLen(s, i) > 0 THEN i
    ELSE SearchFrom(s, i + 1)

SearchTime(s) == SearchFrom(s, 1)

\* re.sub(time_pattern, '', s): every non-overlapping match removed
RECURSIVE SubFrom(_, _)
SubFrom(s, i) ==
    IF i > Len(s) THEN << >>
    ELSE IF TimeMatchLen(s, i) > 0 THEN SubFrom(s, i + TimeMatchLen(s, i))
    ELSE <<s[i]>> \o SubFrom(s, i + 1)

RemoveTimes(s) == SubFrom(s, 1)

(***************************************************************************)
(* Task                                                                    *)
(***************************************************************************)
ValidTimeStr_AnyHour(t) ==
    LET u == IF t # << >> /\ t[Len(t)] = "\n"
             THEN SubSeq(t, 1, Len(t) - 1) ELSE t
    IN  /\ Len(u) \in {4, 5}
        /\ u[Len(u) - 2] = ":"
        /\ u[Len(u) - 1] \in {"0", "1", "2", "3", "4", "5"}
        /\ u[Len(u)] \in Digits
        /\ \A i \in 1..(Len(u) - 3) : u[i] \in Digits

\* re.match(r'^(?:[01]?\d|2[0-3]):[0-5]\d$', time_str); $ also matches
\* just before a final newline
ValidTimeStr(t) ==
    LET u == IF t # << >> /\ t[Len(t)] = "\n"
             THEN SubSeq(t, 1, Len(t) - 1) ELSE t
        hourOK(h) ==
            \/ Len(h) = 1 /\ h[1] \in Digits
            \/ Len(h) = 2 /\ h[1] \in {"0", "1"} /\ h[2] \in Digits
            \/ Len(h) = 2 /\ h[1] = "2" /\ h[2] \in {"0", "1", "2", "3"}
    IN  /\ Len(u) \in {4, 5}
        /\ u[Len(u) - 2] = ":"
        /\ u[Len(u) - 1] \in {"0", "1", "2", "3", "4", "5"}
        /\ u[Len(u)] \in Digits
        /\ hourOK(SubSeq(u, 1, Len(u) - 3))

\* datetime.strptime(time_str, '%H:%M').time() on a validated string
ParseTime(t) ==
    LET n == Len(t)
        hour == IF n = 5 THEN 10 * DigitVal(t[1]) + DigitVal(t[2])
                ELSE DigitVal(t[1])
    IN  <<hour, 10 * DigitVal(t[n - 1]) + DigitVal(t[n])>>

\* datetime.strptime(time_str, '%H:%M') on a string the pattern matched:
\* the final newline that $ let through is unconverted data, a ValueError
StrptimeAccepts(t) == t[Len(t)] # "\n"

MakeTask_RejectsEmpty(time_str, description) ==
    IF \/ ~ValidTimeStr(time_str)
       \/ ~StrptimeAccepts(time_str)
       \/ Strip(description) = << >>
    THEN [raised |-> "ValueError"]
    ELSE [raised |-> "none",
          task |-> [time |-> ParseTime(time_str),
                    description |-> Strip(description)]]

\* Task(time_str, description): raises ValueError when _parse_time does
MakeTask(time_str, description) ==
    IF ~ValidTimeStr(time_str) \/ ~StrptimeAccepts(time_str)
    THEN [raised |-> "ValueError"]
    ELSE [raised |-> "none",
          task |-> [time |-> ParseTime(time_str),
                    description |-> Strip(description)]]

TimeGE_Strict(a, b) == a[1] > b[1] \/ (a[1] = b[1] /\ a[2] > b[2])

\* now >= self.time
TimeGE(a, b) == a[1] > b[1] \/ (a[1] = b[1] /\ a[2] >= b[2])

should_notify(task, now) == TimeGE(now, task.time)

(***************************************************************************)
(* parse_tasks_from_text                                                   *)
(***************************************************************************)
\* one iteration of the loop over the lines: what the line yields
ParseLine(raw) ==
    LET line == Strip(raw)
        at == SearchTime(line)
        time_str == SubSeq(line, at, at + TimeMatchLen(line, at) - 1)
        description == Strip(CollapseSpaces(StripSpaceHyphen(RemoveTimes(line))))
    IN  IF line = << >> THEN [kind |-> "blank"]
        ELSE IF Head(line) = "#" THEN [kind |-> "comment"]
        ELSE IF at = 0 THEN [kind |-> "no_time"]
        ELSE IF description = << >> THEN [kind |-> "empty_description"]
        ELSE IF MakeTask(time_str, description).raised = "ValueError"
             THEN [kind |-> "value_error"]
        ELSE [kind |-> "task", task |-> MakeTask(time_str, description).task]

RECURSIVE ParseLines(_)
ParseLines(lines) ==
    IF lines = << >> THEN << >>
    ELSE LET r == ParseLine(Head(lines))
         IN  (IF r.kind = "task" THEN <<r.task>> ELSE << >>)
                 \o ParseLines(Tail(lines))

parse_tasks_from_text(text) == ParseLines(SplitLines(text))

LineLog_Silent(r) ==
    CASE r.kind \in {"blank", "comment", "no_time"} -> << >>
      [] r.kind = "empty_description" -> <<"warning">>
      [] r.kind = "value_error" -> <<"error">>
      [] r.kind = "task" -> <<"info">>

\* what the iteration writes to the log: lines 89, 96, 99, 101
LineLog(r) ==
    CASE r.kind \in {"blank", "comment"} -> << >>
      [] r.kind \in {"no_time", "empty_description"} -> <<"warning">>
      [] r.kind = "value_error" -> <<"error">>
      [] r.kind = "task" -> <<"info">>

\* the tasks and the log entries one line adds
LineOutcome(raw) ==
    LET r == ParseLine(raw)
    IN  [tasks |-> IF r.kind = "task" THEN <<r.task>> ELSE << >>,
         log |-> LineLog(r)]

(***************************************************************************)
(* validate_task_input                                                     *)
(***************************************************************************)
validate_task_input(task_input) ==
    LET at == SearchTime(task_input)
        time_str ==
            SubSeq(task_input, at, at + TimeMatchLen(task_input, at) - 1)
        description == StripSpaceHyphen(RemoveTimes(task_input))
    IN  IF at = 0 THEN FALSE
        ELSE IF description = << >> THEN FALSE
        ELSE MakeTask(time_str, description).raised = "none"

(***************************************************************************)
(* The backing file and the wall clock: the environment of the manager.    *)
(***************************************************************************)
LineA == <<"1", "0", ":", "0", "0", " ", "-", " ", "a">>

LineB == <<"1", "1", ":", "0", "0", " ", "b">>

NL == <<"\n">>

\* a task, another task, and the first one again
TextThree == LineA \o NL \o LineB \o NL \o LineA \o NL

TextTwo == LineA \o NL \o LineB \o NL

\* a comment, a line without a time, a time without a description, a task
TextMixed ==
    <<"#", " ", "c">> \o NL \o <<"x">> \o NL
        \o <<"9", ":", "5", "9", " ", "-">> \o NL \o LineB

TextBlank == <<" ", "\t", "\n">>

FileTexts == {<< >>, TextBlank, TextTwo, TextThree, TextMixed}

\* the readings of datetime.now().time() the model distinguishes
ClockReadings == {<<0, 0>>, <<10, 0>>, <<23, 59>>}

\* the wall clock only moves forward, and wraps at midnight
NextReading(t) ==
    CASE t = <<0, 0>> -> <<10, 0>>
      [] t = <<10, 0>> -> <<23, 59>>
      [] t = <<23, 59>> -> <<0, 0>>

VARIABLES
    file,           \* tasks_file on disk: [exists, mtime, content]
    now,            \* the wall clock, <<hour, minute>>
    tasks,          \* self.tasks
    last_modified,  \* self.last_modified, the watermark
    _monitoring,    \* self._monitoring
    pc,             \* where monitor_tasks (or a monitoring_context body) is
    fired,          \* history: notifications fired per entry of tasks
    dispatched,     \* history: tasks notified and removed since the last replacing load
    failures,       \* history: consecutive failing ticks of the loop
    applied,        \* history: mtime of the file version last read and applied
    probe,          \* a direct call of Task, the parser or the validator: arguments and result
    last            \* history: the operation that led to this state, its inputs and result

vars == <<file, now, tasks, last_modified, _monitoring, pc, fired,
          dispatched, failures, applied, probe, last>>

\* no direct call is under way
NoProbe ==
    [fn |-> "none", time_str |-> << >>, description |-> << >>,
     text |-> << >>, task |-> [raised |-> "unset"], due |-> FALSE,
     lines |-> << >>, out |-> << >>, valid |-> FALSE]

NoOp ==
    [op |-> "none", at |-> "idle", wm |-> 0, io |-> "ok", before |-> << >>,
     ret |-> TRUE, read |-> FALSE, raised |-> "none",
     propagated |-> "none", notified |-> {}, dispatched |-> {},
     line |-> << >>, old |-> << >>, after |-> "none"]

\* TaskManager.__init__; the file may or may not exist yet
Init ==
    /\ file \in {[exists |-> FALSE, mtime |-> 1, content |-> << >>]}
                \cup {[exists |-> TRUE, mtime |-> 1, content |-> c] :
                        c \in FileTexts}
    /\ now \in ClockReadings
    /\ tasks = << >>
    /\ last_modified = 0
    /\ _monitoring = FALSE
    /\ pc = "idle"
    /\ fired = << >>
    /\ dispatched = {}
    /\ failures = 0
    /\ applied = 0
    /\ probe = NoProbe
    /\ last = NoOp

\* another process (an editor, add_task_to_file, create_file_with_task)
\* writes the file: the modification time moves forward
WriteFile ==
    /\ file.mtime < MaxMtime
    /\ \E c \in FileTexts :
          file' = [exists |-> TRUE, mtime |-> file.mtime + 1, content |-> c]
    /\ last' = NoOp
    /\ UNCHANGED <<probe, applied, now, tasks, last_modified, _monitoring, pc, fired,
                   dispatched, failures>>

DeleteFile ==
    /\ file.exists
    /\ file' = [file EXCEPT !.exists = FALSE]
    /\ last' = NoOp
    /\ UNCHANGED <<probe, applied, now, tasks, last_modified, _monitoring, pc, fired,
                   dispatched, failures>>

ClockAdvance ==
    /\ now' = NextReading(now)
    /\ last' = NoOp
    /\ UNCHANGED <<probe, applied, file, tasks, last_modified, _monitoring, pc, fired,
                   dispatched, failures>>

(***************************************************************************)
(* add_task_to_file and create_file_with_task                              *)
(***************************************************************************)
\* the line the menu hands over (get_user_task_input)
LineC == <<"1", "6", ":", "0", "0", " ", "-", " ", "c">>

\* a line typed with a tab after the time; validate_task_input accepts it
LineTab == <<"1", "0", ":", "0", "0", "\t", "-", " ", "a">>

TaskLines == {LineC, LineTab}

\* what open() can do: succeed or raise an OSError, the file untouched
WriteOutcomes == {"ok", "os_error"}

\* what open(tasks_file, 'a') starts from
ContentOf(f) == IF f.exists THEN f.content ELSE << >>

\* lines 289-290: mode 'a', f.write(task_line + '\n')
AppendedContent(old, task_line) == old \o task_line \o NL

CreatedContent_Append(old, task_line) == old \o task_line \o NL

\* lines 301-302: mode 'w', f.write(task_line + '\n')
CreatedContent(old, task_line) == task_line \o NL

\* lines 288-295 and 300-307: the file after the call and the value returned
WriteEffect(op, content, task_line, io) ==
    /\ io = "ok" => file.mtime < MaxMtime
    /\ file' = IF io = "ok"
               THEN [exists |-> TRUE, mtime |-> file.mtime + 1,
                     content |-> content]
               ELSE file
    /\ last' = [NoOp EXCEPT !.op = op, !.io = io, !.ret = (io = "ok"),
                            !.raised = IF io = "ok" THEN "none"
                                       ELSE "OSError",
                            !.line = task_line, !.old = ContentOf(file),
                            !.after = IF last.op = "load_tasks" /\ last.ret
                                      THEN "load" ELSE "none"]

add_task_to_file ==
    /\ pc = "idle"
    /\ \E task_line \in TaskLines, io \in WriteOutcomes :
          WriteEffect("add_task_to_file",
                      AppendedContent(ContentOf(file), task_line),
                      task_line, io)
    /\ UNCHANGED <<probe, applied, now, tasks, last_modified, _monitoring, pc, fired,
                   dispatched, failures>>

create_file_with_task ==
    /\ pc = "idle"
    /\ \E task_line \in TaskLines, io \in WriteOutcomes :
          WriteEffect("create_file_with_task",
                      CreatedContent(ContentOf(file), task_line),
                      task_line, io)
    /\ UNCHANGED <<probe, applied, now, tasks, last_modified, _monitoring, pc, fired,
                   dispatched, failures>>

(***************************************************************************)
(* load_tasks                                                              *)
(***************************************************************************)
\* what read_text can do: return the content or raise an OSError
IoOutcomes == {"ok", "read_error"}

NotModified_Same(current_modified, watermark) ==
    current_modified = watermark

NotModified_Strict(current_modified, watermark) ==
    current_modified < watermark

\* line 115: the file has not changed since the watermark
NotModified(current_modified, watermark) == current_modified <= watermark

\* line 118, executed before the read of line 119
WatermarkBeforeRead(current_modified, watermark) == current_modified

LoadedTasks_Merge(content, old) ==
    IF Strip(content) = << >> THEN << >>
    ELSE old \o parse_tasks_from_text(content)

\* lines 121-128: the task set after a successful read of content
LoadedTasks(content, old) ==
    IF Strip(content) = << >> THEN << >>
    ELSE parse_tasks_from_text(content)

MissingFile_Clears(old, watermark) ==
    [ret |-> FALSE, tasks |-> << >>, last_modified |-> 0,
     read |-> FALSE, replaced |-> FALSE]

\* lines 110-112: the path does not exist
MissingFile(old, watermark) ==
    [ret |-> FALSE, tasks |-> old, last_modified |-> watermark,
     read |-> FALSE, replaced |-> FALSE]

\* the whole of load_tasks, on file f with task set old and the watermark;
\* io is what read_text does if it is called.  Every Exception is caught
\* (line 133), so the result is always a value.
LoadResult(f, old, watermark, io) ==
    IF ~f.exists THEN MissingFile(old, watermark)
    ELSE IF NotModified(f.mtime, watermark)
    THEN [ret |-> TRUE, tasks |-> old, last_modified |-> watermark,
          read |-> FALSE, replaced |-> FALSE]
    ELSE IF io = "read_error"
    THEN [ret |-> FALSE, tasks |-> old,
          last_modified |-> WatermarkBeforeRead(f.mtime, watermark),
          read |-> TRUE, replaced |-> FALSE]
    ELSE [ret |-> TRUE, tasks |-> LoadedTasks(f.content, old),
          last_modified |-> WatermarkBeforeRead(f.mtime, watermark),
          read |-> TRUE, replaced |-> TRUE]

Zeros(n) == [i \in 1..n |-> 0]

\* the state change of one call of load_tasks, made at position `at`;
\* the history notes a call that directly follows a successful load_tasks
\* and then a successful add_task_to_file
LoadEffect(io, at) ==
    LET r == LoadResult(file, tasks, last_modified, io)
        chained == last.op = "add_task_to_file" /\ last.ret
                       /\ last.after = "load"
    IN  /\ tasks' = r.tasks
        /\ last_modified' = r.last_modified
        /\ fired' = IF r.replaced THEN Zeros(Len(r.tasks)) ELSE fired
        /\ dispatched' = IF r.replaced THEN {} ELSE dispatched
        /\ applied' = IF r.replaced THEN file.mtime ELSE applied
        /\ probe' = probe
        /\ last' = [NoOp EXCEPT !.op = "load_tasks", !.at = at,
                                !.wm = last_modified, !.io = io,
                                !.before = tasks, !.ret = r.ret,
                                !.read = r.read,
                                !.dispatched = dispatched,
                                !.line = IF chained THEN last.line
                                         ELSE << >>,
                                !.old = IF chained THEN last.old ELSE << >>,
                                !.after = IF chained THEN "load_append"
                                          ELSE "none"]

\* load_tasks called outside the loop (start_monitoring, add_task_interactive)
load_tasks ==
    /\ pc = "idle"
    /\ \E io \in IoOutcomes : LoadEffect(io, "idle")
    /\ UNCHANGED <<file, now, _monitoring, pc, failures>>

(***************************************************************************)
(* check_and_notify                                                        *)
(***************************************************************************)
\* the clock readings of the should_notify calls of one pass over n tasks:
\* between two calls the clock stands still or moves on
RECURSIVE ReadingSeqs(_, _)
ReadingSeqs(n, start) ==
    IF n = 0 THEN {<< >>}
    ELSE UNION {{<<t>> \o rest : rest \in ReadingSeqs(n - 1, t)} :
                    t \in {start, NextReading(start)}}

\* line 142 over the snapshot self.tasks[:]
DueAt(snapshot, readings) ==
    {i \in 1..Len(snapshot) : should_notify(snapshot[i], readings[i])}

\* list.index(x): the first position holding an element equal to x
RECURSIVE IndexOf(_, _, _)
IndexOf(list, x, i) ==
    IF list[i] = x THEN i ELSE IndexOf(list, x, i + 1)

DropAt(list, k) == SubSeq(list, 1, k - 1) \o SubSeq(list, k + 1, Len(list))

\* line 149, self.tasks.remove(task): the position that is deleted
RemovedPosition(list, task) == IndexOf(list, task, 1)

\* lines 148-149 on the task list and, in step, on its history
RECURSIVE RemoveEach(_, _, _)
RemoveEach(list, hist, to_remove) ==
    IF to_remove = << >> THEN [tasks |-> list, fired |-> hist]
    ELSE LET k == RemovedPosition(list, Head(to_remove))
         IN  RemoveEach(DropAt(list, k), DropAt(hist, k), Tail(to_remove))

\* the elements of list at the positions in keep, in order
RECURSIVE Select(_, _, _)
Select(list, keep, i) ==
    IF i > Len(list) THEN << >>
    ELSE (IF i \in keep THEN <<list[i]>> ELSE << >>)
             \o Select(list, keep, i + 1)

\* lines 141-145: the tasks whose notification was sent; failAt is the
\* position of the task whose _send_notification raises (0: none does)
SentBefore(due, failAt) ==
    IF failAt = 0 THEN due ELSE {i \in due : i < failAt}

Bump(hist, sent) ==
    [i \in 1..Len(hist) |->
        IF i \in sent /\ hist[i] < MaxFired THEN hist[i] + 1 ELSE hist[i]]

\* the whole of check_and_notify
PassResult(list, hist, readings, failAt) ==
    LET due == DueAt(list, readings)
        sent == SentBefore(due, failAt)
        counted == Bump(hist, sent)
    IN  IF failAt # 0
        THEN [raised |-> "Exception", tasks |-> list, fired |-> counted,
              sent |-> sent, removed |-> {}]
        ELSE LET r == RemoveEach(list, counted, Select(list, sent, 1))
             IN  [raised |-> "none", tasks |-> r.tasks, fired |-> r.fired,
                  sent |-> sent,
                  removed |-> {list[i] : i \in sent}]

(***************************************************************************)
(* monitoring_context and monitor_tasks                                    *)
(***************************************************************************)
Exceptions == {"Exception", "CancelledError"}

FlagAfterContext_NoFinally(exc) == exc # "none"

\* lines 175-176: the flag once the context is left, whatever left it
FlagAfterContext(exc) == FALSE

\* lines 172-177: the context is left, exc ("none" on a normal exit)
\* propagates to the caller; rec describes the operation that ended
LeaveContext(exc, rec) ==
    /\ _monitoring' = FlagAfterContext(exc)
    /\ pc' = "idle"
    /\ last' = [rec EXCEPT !.raised = exc, !.propagated = exc]

TickExcept_RetryAll(exc) == "backoff"

TickExcept_RetryNone(exc) == "reraise"

\* lines 193-200: what the try statement does with an exception raised in
\* the tick (lines 185-191)
TickExcept(exc) ==
    IF exc = "CancelledError" THEN "reraise" ELSE "backoff"

\* an exception raised by the operation rec at position rec.at of the
\* loop; at line 200 it is raised inside the except clause itself
RaiseInLoop(exc, rec) ==
    IF rec.at = "backoff" \/ TickExcept(exc) = "reraise"
    THEN LeaveContext(exc, rec) /\ UNCHANGED failures
    ELSE /\ pc' = "backoff"
         /\ failures' = IF failures < MaxFailures THEN failures + 1
                        ELSE failures
         /\ last' = [rec EXCEPT !.raised = exc]
         /\ UNCHANGED _monitoring

\* lines 181-182: the context is entered and the loop condition holds
monitor_tasks ==
    /\ pc = "idle"
    /\ _monitoring' = TRUE
    /\ pc' = "load"
    /\ failures' = 0
    /\ last' = [NoOp EXCEPT !.op = "monitor_tasks"]
    /\ UNCHANGED <<probe, applied, file, now, tasks, last_modified, fired, dispatched>>

\* line 185
MonitorLoad ==
    /\ pc = "load"
    /\ \E io \in IoOutcomes : LoadEffect(io, "load")
    /\ pc' = "dispatch"
    /\ UNCHANGED <<file, now, _monitoring, failures>>

\* line 185 with load_tasks raising CancelledError
\* (test_monitor_tasks_cancelled)
MonitorLoadCancelled ==
    /\ pc = "load"
    /\ RaiseInLoop("CancelledError",
                   [NoOp EXCEPT !.op = "load_tasks_mock", !.at = "load"])
    /\ UNCHANGED <<probe, applied, file, now, tasks, last_modified, fired, dispatched>>

\* line 188
MonitorDispatch ==
    /\ pc = "dispatch"
    /\ \E readings \in ReadingSeqs(Len(tasks), now) :
       \E failAt \in {0} \cup DueAt(tasks, readings) :
          LET r == PassResult(tasks, fired, readings, failAt)
              made == IF failAt = 0 THEN Len(tasks) ELSE failAt
              rec == [NoOp EXCEPT !.op = "check_and_notify",
                                  !.at = "dispatch", !.before = tasks,
                                  !.notified = r.sent]
          IN  /\ tasks' = r.tasks
              /\ fired' = r.fired
              /\ dispatched' = dispatched \cup r.removed
              /\ now' = IF made = 0 THEN now ELSE readings[made]
              /\ IF r.raised = "none"
                 THEN /\ pc' = "sleep"
                      /\ failures' = 0
                      /\ last' = rec
                      /\ UNCHANGED _monitoring
                 ELSE RaiseInLoop(r.raised, rec)
    /\ UNCHANGED <<probe, applied, file, last_modified>>

AfterSleep_Once(flag) == "idle"

\* line 182, while self._monitoring: where a sleep that returns leads
AfterSleep(flag) == IF flag THEN "load" ELSE "idle"

\* line 191 returns; line 182 finds the flag set
SleepDone ==
    /\ pc = "sleep"
    /\ pc' = AfterSleep(_monitoring)
    /\ last' = [NoOp EXCEPT !.op = "sleep_done", !.at = "sleep"]
    /\ UNCHANGED <<probe, applied, file, now, tasks, last_modified, _monitoring, fired,
                   dispatched, failures>>

\* line 200 returns; line 182 finds the flag set
BackoffDone ==
    /\ pc = "backoff"
    /\ pc' = AfterSleep(_monitoring)
    /\ last' = [NoOp EXCEPT !.op = "backoff_done", !.at = "backoff"]
    /\ UNCHANGED <<probe, applied, file, now, tasks, last_modified, _monitoring, fired,
                   dispatched, failures>>

\* the loop's asyncio task is cancelled while it is suspended in
\* asyncio.sleep (line 191 or line 200)
Cancel ==
    /\ pc \in {"sleep", "backoff"}
    /\ RaiseInLoop("CancelledError",
                   [NoOp EXCEPT !.op = "sleep", !.at = pc])
    /\ UNCHANGED <<probe, applied, file, now, tasks, last_modified, fired, dispatched>>

\* async with monitoring_context(): around any other body
\* (test_monitoring_context)
EnterContext ==
    /\ pc = "idle"
    /\ _monitoring' = TRUE
    /\ pc' = "body"
    /\ last' = [NoOp EXCEPT !.op = "enter"]
    /\ UNCHANGED <<probe, applied, file, now, tasks, last_modified, fired, dispatched,
                   failures>>

\* that body ends, normally or by raising
BodyEnds ==
    /\ pc = "body"
    /\ \E exc \in {"none"} \cup Exceptions :
          LeaveContext(exc, [NoOp EXCEPT !.op = "body", !.at = "body"])
    /\ UNCHANGED <<probe, applied, file, now, tasks, last_modified, fired, dispatched,
                   failures>>

Next ==
    \/ WriteFile
    \/ DeleteFile
    \/ ClockAdvance
    \/ load_tasks
    \/ monitor_tasks
    \/ MonitorLoad
    \/ MonitorLoadCancelled
    \/ MonitorDispatch
    \/ SleepDone
    \/ BackoffDone
    \/ Cancel
    \/ EnterContext
    \/ BodyEnds

Spec == Init /\ [][Next]_vars

(***************************************************************************)
(* The menu without the monitoring loop: handle_file_operations and        *)
(* add_task_interactive write the file, start_monitoring's first step      *)
(* loads it, and the user edits or deletes it in between.                  *)
(***************************************************************************)
NextCli ==
    \/ WriteFile
    \/ DeleteFile
    \/ add_task_to_file
    \/ create_file_with_task
    \/ load_tasks

SpecCli == Init /\ [][NextCli]_vars

(***************************************************************************)
(* load_tasks and check_and_notify called one after another in any order   *)
(* (the tests of TestTaskManager), while the file is written, deleted or   *)
(* put back with an older modification time.                               *)
(***************************************************************************)
\* an older copy of the file is put back: st_mtime does not move forward
RestoreFile ==
    /\ \E c \in FileTexts, m \in 1..file.mtime :
          file' = [exists |-> TRUE, mtime |-> m, content |-> c]
    /\ last' = NoOp
    /\ UNCHANGED <<probe, applied, now, tasks, last_modified, _monitoring,
                   pc, fired, dispatched, failures>>

\* await manager.check_and_notify(): an exception of _send_notification
\* reaches the caller
check_and_notify ==
    /\ pc = "idle"
    /\ \E readings \in ReadingSeqs(Len(tasks), now) :
       \E failAt \in {0} \cup DueAt(tasks, readings) :
          LET r == PassResult(tasks, fired, readings, failAt)
              made == IF failAt = 0 THEN Len(tasks) ELSE failAt
          IN  /\ tasks' = r.tasks
              /\ fired' = r.fired
              /\ dispatched' = dispatched \cup r.removed
              /\ now' = IF made = 0 THEN now ELSE readings[made]
              /\ last' = [NoOp EXCEPT !.op = "check_and_notify",
                                      !.before = tasks,
                                      !.notified = r.sent,
                                      !.raised = r.raised,
                                      !.propagated = r.raised]
    /\ UNCHANGED <<probe, applied, file, last_modified, _monitoring, pc,
                   failures>>

NextCalls ==
    \/ WriteFile
    \/ RestoreFile
    \/ DeleteFile
    \/ ClockAdvance
    \/ load_tasks
    \/ check_and_notify

SpecCalls == Init /\ [][NextCalls]_vars

(***************************************************************************)
(* Direct calls: Task(time_str, description) and task.should_notify(now),  *)
(* as the tests of TestTask make them.  The manager stays as constructed.  *)
(***************************************************************************)
\* the manager untouched: no file, nothing loaded, no loop
Untouched ==
    /\ file = [exists |-> FALSE, mtime |-> 1, content |-> << >>]
    /\ tasks = << >>
    /\ last_modified = 0
    /\ _monitoring = FALSE
    /\ pc = "idle"
    /\ fired = << >>
    /\ dispatched = {}
    /\ failures = 0
    /\ applied = 0
    /\ last = NoOp

\* Task.__init__ on the arguments drawn
TaskInit ==
    /\ probe.fn = "args"
    /\ probe' = [probe EXCEPT !.fn = "Task",
                              !.task = MakeTask(probe.time_str,
                                                probe.description)]
    /\ UNCHANGED <<file, now, tasks, last_modified, _monitoring, pc, fired,
                   dispatched, failures, applied, last>>

\* task.should_notify(now) on the task constructed
ShouldNotify ==
    /\ probe.fn = "Task"
    /\ probe.task.raised = "none"
    /\ probe' = [probe EXCEPT !.fn = "should_notify",
                              !.due = should_notify(probe.task.task, now)]
    /\ UNCHANGED <<file, now, tasks, last_modified, _monitoring, pc, fired,
                   dispatched, failures, applied, last>>

NextTask == TaskInit \/ ShouldNotify

\* times of day around midnight, a morning boundary and the last minute
NotifyTimeStrs ==
    {<<"0", ":", "0", "0">>, <<"0", "0", ":", "0", "1">>,
     <<"9", ":", "5", "9">>, <<"1", "0", ":", "0", "0">>,
     <<"1", "0", ":", "0", "1">>, <<"1", "2", ":", "3", "0">>,
     <<"2", "3", ":", "5", "9">>}

InitNotify ==
    /\ Untouched
    /\ now \in {ParseTime(t) : t \in NotifyTimeStrs}
    /\ \E t \in NotifyTimeStrs :
          probe = [NoProbe EXCEPT !.fn = "args", !.time_str = t,
                                  !.description = <<"a">>]

SpecNotify == InitNotify /\ [][NextTask]_vars

\* Task() on every string of up to MaxTimeLen of these characters
MaxTimeLen == 5

TimeChars == {"0", "2", "3", "4", "6", ":", "\n"}

RECURSIVE Strings(_)
Strings(n) ==
    IF n = 0 THEN {<< >>}
    ELSE LET shorter == Strings(n - 1)
         IN  shorter \cup {Append(t, c) : t \in shorter, c \in TimeChars}

\* empty, white space only, and text to trim
TaskDescriptions == {<< >>, <<" ", "\t">>, <<" ", "a", " ">>}

InitTask ==
    /\ Untouched
    /\ now = <<10, 0>>
    /\ \E t \in Strings(MaxTimeLen), d \in TaskDescriptions :
          probe = [NoProbe EXCEPT !.fn = "args", !.time_str = t,
                                  !.description = d]

SpecTask == InitTask /\ [][NextTask]_vars

(***************************************************************************)
(* Direct calls of parse_tasks_from_text and validate_task_input on texts  *)
(* put together from a few tokens.                                         *)
(***************************************************************************)
MaxTokens == 4

TimeA == <<"1", "0", ":", "0", "0">>

TimeB == <<"1", "1", ":", "0", "0">>

Tokens == {TimeA, TimeB, <<" ">>, <<"\t">>, <<"-">>, <<"a">>, <<"#">>, NL}

RECURSIVE TokenTexts(_)
TokenTexts(n) ==
    IF n = 0 THEN {<< >>}
    ELSE LET shorter == TokenTexts(n - 1)
         IN  shorter \cup {t \o k : t \in shorter, k \in Tokens}

\* longer lines: two times with text between and after them, a time
\* inside the text, a remainder of hyphens and white space
ParseSamples ==
    {TimeA \o <<" ", "a", " ">> \o TimeB \o <<" ", "b">>,
     <<"a", " ">> \o TimeB \o <<" ", "b", " ">> \o TimeA,
     TimeA \o <<" ", "-", "\t", "-", " ">>}

InitParse ==
    /\ Untouched
    /\ now = <<0, 0>>
    /\ \E text \in TokenTexts(MaxTokens) \cup ParseSamples :
          probe = [NoProbe EXCEPT !.fn = "text", !.text = text]

ParseText ==
    /\ probe.fn = "text"
    /\ probe' = [probe EXCEPT
                    !.fn = "parse_tasks_from_text",
                    !.lines = [i \in 1..Len(SplitLines(probe.text)) |->
                                  LineOutcome(SplitLines(probe.text)[i])],
                    !.out = parse_tasks_from_text(probe.text)]
    /\ UNCHANGED <<file, now, tasks, last_modified, _monitoring, pc, fired,
                   dispatched, failures, applied, last>>

ValidateInput ==
    /\ probe.fn = "text"
    /\ probe' = [probe EXCEPT !.fn = "validate_task_input",
                              !.valid = validate_task_input(probe.text)]
    /\ UNCHANGED <<file, now, tasks, last_modified, _monitoring, pc, fired,
                   dispatched, failures, applied, last>>

NextParse == ParseText \/ ValidateInput

SpecParse == InitParse /\ [][NextParse]_vars

(***************************************************************************)
(* Properties                                                              *)
(***************************************************************************)
Range(list) == {list[i] : i \in 1..Len(list)}

LoopPositions == {"load", "dispatch", "sleep", "backoff"}

\* this state follows a call of load_tasks on the file as it is now
Loaded == last.op = "load_tasks"

\* C1: when read_text raises on a file newer than the watermark, load_tasks
\* returns False without raising and leaves the task set and the watermark
\* as they were
C1_ReadErrorChangesNothing ==
    (Loaded /\ file.exists /\ file.mtime > last.wm /\ last.io = "read_error")
        => /\ last.ret = FALSE
           /\ last.propagated = "none"
           /\ tasks = last.before
           /\ last_modified = last.wm

\* C2: between two replacing loads no entry of the task set has its
\* notification fired more than once
C2_NotifiedAtMostOnce ==
    \A i \in 1..Len(fired) : fired[i] <= 1

\* C3: a pass that completes normally leaves exactly the entries it did not
\* notify, in their original order
C3_PassRemovesExactlyNotified ==
    (last.op = "check_and_notify" /\ last.raised = "none")
        => tasks = Select(last.before,
                          (1..Len(last.before)) \ last.notified, 1)

\* C4: a CancelledError raised anywhere in the loop (at either sleep, or by
\* the tick) leaves monitor_tasks as a CancelledError and ends the loop
C4_CancellationPropagates ==
    (last.raised = "CancelledError" /\ last.at \in LoopPositions)
        => /\ last.propagated = "CancelledError"
           /\ pc = "idle"
           /\ ~_monitoring

C4_Witness ==
    /\ last.raised = "CancelledError"
    /\ last.at = "backoff"
    /\ last.propagated = "CancelledError"
    /\ pc = "idle"

\* C5: an Exception raised in a tick stays in the loop: the loop goes to the
\* back-off sleep with the flag set, and after the back-off it starts the
\* next tick, however many ticks in a row have failed
C5_ErrorsContained ==
    /\ (last.raised = "Exception" /\ last.at \in LoopPositions)
           => /\ pc = "backoff"
              /\ _monitoring
              /\ last.propagated = "none"
    /\ last.op = "backoff_done" => (pc = "load" /\ _monitoring)

C5_Witness ==
    /\ last.raised = "Exception"
    /\ last.at = "dispatch"
    /\ failures >= 2
    /\ pc = "backoff"

\* C6: the flag is set exactly while the body of monitoring_context (the
\* loop or any other body) is executing: clear before the first entry and
\* after every way of leaving
C6_FlagTracksContext ==
    _monitoring <=> pc \in LoopPositions \cup {"body"}

C6_Witness ==
    /\ last.op = "body"
    /\ last.propagated = "Exception"
    /\ pc = "idle"
    /\ ~_monitoring

\* C7: a call that finds the file's modification time at or below the
\* watermark returns True, reads nothing and changes neither the task set
\* nor the watermark
C7_UnmodifiedFileIsNoOp ==
    (Loaded /\ file.exists /\ file.mtime <= last.wm)
        => /\ last.ret = TRUE
           /\ ~last.read
           /\ tasks = last.before
           /\ last_modified = last.wm

\* the call found tasks the dispatcher had removed, and they stay removed
C7_Witness ==
    /\ Loaded /\ file.exists /\ file.mtime <= last.wm
    /\ last.ret = TRUE
    /\ dispatched # {}
    /\ Len(tasks) < Len(parse_tasks_from_text(file.content))

\* C8: after a successful read of a non-empty file newer than the
\* watermark the task set is the parse of the file content, nothing else
C8_ReloadReplacesTaskSet ==
    (Loaded /\ file.exists /\ file.mtime > last.wm /\ last.io = "ok"
        /\ Strip(file.content) # << >>)
        => /\ last.ret = TRUE
           /\ tasks = parse_tasks_from_text(file.content)

\* a task that was notified and removed is pending again, and a task of the
\* previous set that the file no longer holds is gone
C8_Witness ==
    /\ Loaded /\ file.exists /\ file.mtime > last.wm /\ last.io = "ok"
    /\ Strip(file.content) # << >>
    /\ last.dispatched \cap Range(tasks) # {}
    /\ Range(last.before) \ Range(tasks) # {}

\* C9: a call on an existing empty or whitespace-only file returns True and
\* leaves the task set empty, whatever the task set and watermark were
C9_EmptyFileEmptiesTaskSet ==
    (Loaded /\ file.exists /\ last.io = "ok" /\ Strip(file.content) = << >>)
        => /\ last.ret = TRUE
           /\ tasks = << >>

\* C10: a call on a missing path returns False as a value and leaves the
\* task set and the watermark as they were
C10_MissingFileIsFailure ==
    (Loaded /\ ~file.exists)
        => /\ last.ret = FALSE
           /\ last.propagated = "none"
           /\ tasks = last.before
           /\ last_modified = last.wm

C10_Witness ==
    /\ Loaded /\ ~file.exists
    /\ last.ret = FALSE
    /\ tasks # << >>
    /\ last_modified > 0

(***************************************************************************)
(* Task                                                                    *)
(***************************************************************************)
MinuteOfDay(t) == 60 * t[1] + t[2]

\* C11: should_notify is true exactly when the current time of day is at
\* or after the task's time; at equality it is true.
C11_ShouldNotifyIffNotBefore ==
    probe.fn = "should_notify" =>
        /\ probe.due <=> MinuteOfDay(now) >= MinuteOfDay(probe.task.task.time)
        /\ now = probe.task.task.time => probe.due

C11_Witness ==
    /\ probe.fn = "should_notify"
    /\ now = probe.task.task.time
    /\ probe.due

(***************************************************************************)
(* The task file written by the menu                                       *)
(***************************************************************************)
\* C12: load_tasks succeeds, add_task_to_file appends a valid task line,
\* and the next load_tasks (its read succeeding) returns True with exactly
\* one more task than before the append, the last one carrying the
\* appended description.
C12_AppendThenReloadAddsOne ==
    (/\ last.op = "load_tasks"
     /\ last.after = "load_append"
     /\ last.io = "ok"
     /\ ParseLine(last.line).kind = "task") =>
        /\ last.ret
        /\ Len(tasks) = Len(last.before) + 1
        /\ tasks[Len(tasks)].description
               = ParseLine(last.line).task.description

(***************************************************************************)
(* The line parser                                                         *)
(***************************************************************************)
\* the line is neither blank nor a comment
Counted(raw) == Strip(raw) # << >> /\ Head(Strip(raw)) # "#"

Complaints(log) ==
    Cardinality({i \in 1..Len(log) : log[i] \in {"warning", "error"}})

RECURSIVE TasksOf(_)
TasksOf(outcomes) ==
    IF outcomes = << >> THEN << >>
    ELSE Head(outcomes).tasks \o TasksOf(Tail(outcomes))

\* C13: parse_tasks_from_text returns for every text; a blank or comment
\* line adds nothing, every other line adds either one task or one
\* warning/error entry and no task, and the output is the tasks of the
\* lines in line order.
C13_EveryLineTaskOrComplaint ==
    probe.fn = "parse_tasks_from_text" =>
        LET lines == SplitLines(probe.text)
        IN  /\ Len(probe.lines) = Len(lines)
            /\ \A i \in 1..Len(lines) :
                  LET o == probe.lines[i]
                  IN  /\ Len(o.tasks) <= 1
                      /\ Len(o.tasks) + Complaints(o.log)
                            = IF Counted(lines[i]) THEN 1 ELSE 0
            /\ probe.out = TasksOf(probe.lines)

\* a line without a time is skipped with a warning and a later line
\* still yields its task
C13_Witness ==
    /\ probe.fn = "parse_tasks_from_text"
    /\ Len(probe.lines) >= 2
    /\ probe.lines[1].log = <<"warning">>
    /\ probe.lines[1].tasks = << >>
    /\ Len(probe.lines[2].tasks) = 1
    /\ Len(probe.out) = 1

\* where the time pattern matches in s, scanning from position i as
\* re.finditer does
RECURSIVE MatchesFrom(_, _)
MatchesFrom(s, i) ==
    IF i > Len(s) THEN << >>
    ELSE IF TimeMatchLen(s, i) > 0
         THEN <<i>> \o MatchesFrom(s, i + TimeMatchLen(s, i))
    ELSE MatchesFrom(s, i + 1)

TokenAt(s, i) == SubSeq(s, i, i + TimeMatchLen(s, i) - 1)

Contains(s, sub) ==
    \E i \in 1..(Len(s) - Len(sub) + 1) :
        SubSeq(s, i, i + Len(sub) - 1) = sub

OneLine(text) == \A i \in 1..Len(text) : text[i] # "\n"

\* C14: a line with two time substrings and other text yields one task
\* whose time is the first of them and whose description still contains
\* the second.
C14_SecondTimeStaysInDescription ==
    (/\ probe.fn = "parse_tasks_from_text"
     /\ OneLine(probe.text)
     /\ Counted(probe.text)
     /\ Len(MatchesFrom(probe.text, 1)) = 2
     /\ \E i \in 1..Len(probe.text) : probe.text[i] \in Letters) =>
        LET at == MatchesFrom(probe.text, 1)
        IN  /\ Len(probe.out) = 1
            /\ probe.out[1].time = ParseTime(TokenAt(probe.text, at[1]))
            /\ Contains(probe.out[1].description,
                        TokenAt(probe.text, at[2]))

\* the line without its first time token
WithoutFirstToken(s) ==
    LET at == SearchTime(s)
    IN  SubSeq(s, 1, at - 1) \o SubSeq(s, at + TimeMatchLen(s, at), Len(s))

WhitespaceOnly(s) == \A i \in 1..Len(s) : IsSpace(s[i])

\* a time token and nothing but spaces, hyphens and white space around it
BlankRemainder(s) ==
    /\ OneLine(s)
    /\ SearchTime(s) > 0
    /\ WhitespaceOnly(StripSpaceHyphen(WithoutFirstToken(s)))

\* C15 (the parser): such a line is skipped with a warning
C15_ParserSkips ==
    (probe.fn = "parse_tasks_from_text" /\ BlankRemainder(probe.text)) =>
        /\ probe.out = << >>
        /\ probe.lines[1].log = <<"warning">>

\* C15 (the validator): such a line is refused
C15_ValidatorRefuses ==
    (probe.fn = "validate_task_input" /\ BlankRemainder(probe.text)) =>
        ~probe.valid

\* C15: a line with a valid time token whose remainder, the token removed
\* and spaces and hyphens stripped, is empty or only white space produces
\* no task: the parser skips it with a warning and validate_task_input
\* returns False.
C15_BlankRemainderNoTask == C15_ParserSkips /\ C15_ValidatorRefuses

(***************************************************************************)
(* Task construction                                                       *)
(***************************************************************************)
\* the digits before the colon as a number, and the two after it
HourOf(t) ==
    IF Len(t) = 5 THEN 10 * DigitVal(t[1]) + DigitVal(t[2])
    ELSE DigitVal(t[1])

MinuteOf(t) == 10 * DigitVal(t[Len(t) - 1]) + DigitVal(t[Len(t)])

\* one or two hour digits denoting 0-23, a colon, two minute digits
\* denoting 00-59, and nothing else
WellFormedTime(t) ==
    /\ Len(t) \in {4, 5}
    /\ t[Len(t) - 2] = ":"
    /\ \A i \in (1..Len(t)) \ {Len(t) - 2} : t[i] \in Digits
    /\ HourOf(t) <= 23
    /\ MinuteOf(t) <= 59

\* C16: Task construction accepts a time string exactly when it is one or
\* two hour digits denoting 0-23, a colon and two minute digits denoting
\* 00-59, and then holds that hour and minute; every other string is
\* rejected with a ValueError.
C16_AcceptsExactlyHHMM ==
    probe.fn = "Task" =>
        IF WellFormedTime(probe.time_str)
        THEN /\ probe.task.raised = "none"
             /\ probe.task.task.time
                   = <<HourOf(probe.time_str), MinuteOf(probe.time_str)>>
        ELSE probe.task.raised = "ValueError"

\* 23:00 is accepted as hour 23, minute 0
C16_Witness ==
    /\ probe.fn = "Task"
    /\ probe.time_str = <<"2", "3", ":", "0", "0">>
    /\ probe.task.raised = "none"
    /\ probe.task.task.time = <<23, 0>>

\* C17 as stated: a Task is constructed only from a valid time token and a
\* description that is non-empty after trimming; with a valid time and an
\* empty or white-space-only description construction fails.
C17_EmptyDescriptionFails ==
    probe.fn = "Task" =>
        (probe.task.raised = "none"
            <=> /\ WellFormedTime(probe.time_str)
                /\ Strip(probe.description) # << >>)

\* C17 amended: construction fails exactly when the time string is not a
\* valid time token; the description is trimmed and may be empty.
C17_ConstructionFailsOnlyOnTime ==
    probe.fn = "Task" =>
        /\ probe.task.raised = "ValueError"
              <=> ~WellFormedTime(probe.time_str)
        /\ probe.task.raised = "none"
              => probe.task.task.description = Strip(probe.description)

\* a Task with a valid time and a white-space-only description exists,
\* its description empty
C17_Witness ==
    /\ probe.fn = "Task"
    /\ probe.description = <<" ", "\t">>
    /\ probe.task.raised = "none"
    /\ probe.task.task.description = << >>

(***************************************************************************)
(* add_task_to_file, create_file_with_task                                 *)
(***************************************************************************)
\* C18: add_task_to_file leaves the previous content in place and puts the
\* line and a newline after it; create_file_with_task leaves exactly the
\* line and a newline; each returns True when the write succeeds and
\* False, raising nothing, when it fails.
C18_AppendKeepsCreateReplaces ==
    /\ (last.op = "add_task_to_file" /\ last.io = "ok") =>
          /\ last.ret = TRUE
          /\ file.exists
          /\ SubSeq(file.content, 1, Len(last.old)) = last.old
          /\ SubSeq(file.content, Len(last.old) + 1, Len(file.content))
                = last.line \o <<"\n">>
    /\ (last.op = "create_file_with_task" /\ last.io = "ok") =>
          /\ last.ret = TRUE
          /\ file.exists
          /\ file.content = last.line \o <<"\n">>
    /\ (last.op \in {"add_task_to_file", "create_file_with_task"}
            /\ last.io # "ok") =>
          /\ last.ret = FALSE
          /\ last.propagated = "none"

\* create_file_with_task on a file that held tasks: they are gone
C18_Witness ==
    /\ last.op = "create_file_with_task"
    /\ last.ret = TRUE
    /\ parse_tasks_from_text(last.old) # << >>
    /\ file.content = last.line \o <<"\n">>

(***************************************************************************)
(* The watermark                                                           *)
(***************************************************************************)
\* C19: whenever the watermark equals the file's modification time, that
\* version of the file has been read and applied by load_tasks.
C19_WatermarkMeansApplied ==
    (file.exists /\ last_modified = file.mtime) => applied = file.mtime

(***************************************************************************)
(* Cancellation and the tick                                               *)
(***************************************************************************)
\* C20: a cancellation takes effect only while the loop is suspended in a
\* sleep, after the tick's load and dispatch, and then no task that was
\* notified is still in the task set.
C20_CancelLeavesNoNotifiedTask ==
    (last.op = "sleep" /\ last.raised = "CancelledError") =>
        /\ last.at \in {"sleep", "backoff"}
        /\ \A i \in 1..Len(fired) : fired[i] = 0

(***************************************************************************)
(* The end of the loop                                                     *)
(***************************************************************************)
\* C21: monitor_tasks, once in its loop, is left only by a CancelledError:
\* whenever a step made at a position of the loop has led back to the
\* caller, it raised a CancelledError and that is what the caller gets,
\* whatever the file and the task set are.
C21_LoopEndsOnlyByCancellation ==
    (last.at \in LoopPositions /\ pc = "idle")
        => /\ last.raised = "CancelledError"
           /\ last.propagated = "CancelledError"

\* the loop starts another tick with the file gone, the task set empty
\* and every task dispatched
C21_Witness ==
    /\ last.op = "sleep_done"
    /\ pc = "load"
    /\ ~file.exists
    /\ tasks = << >>
    /\ dispatched # {}

(***************************************************************************)
(* Due tasks and the clock                                                 *)
(***************************************************************************)
\* C22: a pending task that is due and not yet notified is still due after
\* every step that leaves the task set alone, the clock passing midnight
\* included.
C22_DueStaysDue ==
    [][tasks' = tasks =>
          \A i \in 1..Len(tasks) :
              (fired[i] = 0 /\ should_notify(tasks[i], now))
                  => should_notify(tasks[i], now')]_vars

(***************************************************************************)
(* The tasks of the task set                                               *)
(***************************************************************************)
\* C23: every task of the task set has an hour in 0..23, a minute in
\* 0..59 and a description that is not empty, neither starts nor ends with
\* a space or a hyphen, and holds no white space but single spaces.
C23_TasksNormalised ==
    \A i \in 1..Len(tasks) :
        LET d == tasks[i].description
        IN  /\ tasks[i].time[1] \in 0..23
            /\ tasks[i].time[2] \in 0..59
            /\ d # << >>
            /\ d[1] \notin {" ", "-"}
            /\ d[Len(d)] \notin {" ", "-"}
            /\ \A k \in 1..Len(d) :
                  IsSpace(d[k]) =>
                      /\ d[k] = " "
                      /\ k < Len(d) => ~IsSpace(d[k + 1])

(***************************************************************************)
(* The validator against the parser                                        *)
(***************************************************************************)
\* C24: every single-line input that validate_task_input accepts is a
\* line that parse_tasks_from_text turns into exactly one task, inputs
\* starting with '#' included.
C24_AcceptedLineParses ==
    (/\ probe.fn = "validate_task_input"
     /\ OneLine(probe.text)
     /\ probe.valid) =>
        Len(parse_tasks_from_text(probe.text)) = 1

(***************************************************************************)
(* The watermark and the task set over calls                               *)
(***************************************************************************)
\* a is b with some entries left out
RECURSIVE IsSubSeq(_, _)
IsSubSeq(a, b) ==
    IF a = << >> THEN TRUE
    ELSE IF b = << >> THEN FALSE
    ELSE IF Head(a) = Head(b) THEN IsSubSeq(Tail(a), Tail(b))
    ELSE IsSubSeq(a, Tail(b))

\* C25: no step lowers the watermark and only load_tasks changes it;
\* check_and_notify leaves the watermark alone and leaves a sub-sequence
\* of the task set, the task set itself when the pass raised.
C25_WatermarkAndTaskSetMonotone ==
    [][/\ last_modified' >= last_modified
       /\ last_modified' # last_modified => last'.op = "load_tasks"
       /\ last'.op = "check_and_notify" =>
             /\ last_modified' = last_modified
             /\ IsSubSeq(tasks', tasks)
             /\ last'.raised # "none" => tasks' = tasks]_vars

\* load_tasks on a file put back with a modification time below the
\* watermark, after a pass that removed tasks: the watermark stays
C25_Witness ==
    /\ last.op = "load_tasks"
    /\ file.exists
    /\ file.mtime < last_modified
    /\ last_modified = last.wm
    /\ dispatched # {}

====
